---- MODULE Spec2Model ----
(***************************************************************************)
(* go-launchd: launchd socket activation.                                  *)
(*                                                                         *)
(* The model follows the latest revision of the package: the public        *)
(* operations Files, Listeners, PacketListeners, TCPListeners and          *)
(* UDPListeners, their darwin implementation (listenerFdsWithName, files,  *)
(* listeners, packetListeners) and the stub used on every other platform.  *)
(* The service manager (launch_activate_socket), the descriptor table of   *)
(* the process and the standard library calls the code makes (os.NewFile,  *)
(* getsockopt, net.FileListener, net.FilePacketConn, Close) are modelled   *)
(* as far as the code depends on them.                                     *)
(***************************************************************************)
EXTENDS Integers, Sequences, FiniteSets, TLC

VARIABLES
    platform,     \* build target: "darwin" (darwin && !ios) or "other"
    managed,      \* the process was started by launchd
    missingCode,  \* code launchd answers for a name it does not know
    plist,        \* service descriptor: socket name -> descriptor slots
    activated,    \* launchd's record of the names this process activated
    fdtab,        \* descriptor table of the process: open fd -> open socket
    fileObjs,     \* every *os.File built so far
    lnObjs,       \* every net.Listener / net.PacketConn built so far
    last,         \* the last public call and what it returned
    checkin,      \* the last call of IsManagedByLaunchd: what the foreign
                  \* routines answered and what it returned
    gs,           \* the goroutines that call the package concurrently:
                  \* where each is in its call and what it got
    frames,       \* the words fd and count of each running call of
                  \* listenerFdsWithName, which launch_activate_socket writes,
                  \* and the array fd points to
    faults        \* what goes wrong in the foreign calls of this process

vars == <<platform, managed, missingCode, plist, activated, fdtab, fileObjs,
          lnObjs, last, checkin, gs, frames, faults>>

---------------------------------------------------------------------------
(* Bounds.                                                                 *)

\* longest descriptor array launchd returns for one name
MaxCount == 2

---------------------------------------------------------------------------
(* Error numbers (package syscall, darwin values) and socket types.        *)

ENOENT == 2
ESRCH == 3
EBADF == 9
EINVAL == 22
EALREADY == 37
ENOTSOCK == 38
EPROTONOSUPPORT == 43
ESOCKTNOSUPPORT == 44
ENOTSUP == 45
ENOSYS == 78
EOPNOTSUPP == 102

SOCK_STREAM == 1
SOCK_DGRAM == 2

\* launch_data_type_t: launchDataTypeDict = iota + 1, ..., launchDataTypeErrno,
\* launchDataTypeMachport
launchDataTypeDict == 1
launchDataTypeErrno == 9
launchDataTypeMachport == 10

---------------------------------------------------------------------------
(* Errors.  An error value is its outermost message and the error numbers  *)
(* at the leaves of its wrap tree, in order; errors.Join and %w keep the   *)
(* leaves.                                                                 *)

NilErr == [isNil |-> TRUE, msg |-> "", leaves |-> <<>>]

\* fmt.Errorf(msg + ": %w", errno)
Errorf(msg, errno) == [isNil |-> FALSE, msg |-> msg, leaves |-> <<errno>>]

\* fmt.Errorf(msg) wrapping nothing
ErrorfPlain(msg) == [isNil |-> FALSE, msg |-> msg, leaves |-> <<>>]

\* fmt.Errorf(msg + ": %w", err) for a non-nil err
Wrap(msg, err) == [isNil |-> FALSE, msg |-> msg, leaves |-> err.leaves]

\* errors.Join(err, e) with e non-nil
Join(err, e) ==
    [isNil |-> FALSE, msg |-> "join", leaves |-> err.leaves \o e.leaves]

\* errors.Is(err, target) for an error number target
ErrorsIs(err, target) ==
    /\ ~err.isNil
    /\ \E i \in 1..Len(err.leaves) : err.leaves[i] = target

\* errors.Is(err, errors.ErrUnsupported): syscall.Errno.Is
IsErrUnsupported(err) ==
    /\ ~err.isNil
    /\ \E i \in 1..Len(err.leaves) : err.leaves[i] \in {ENOSYS, ENOTSUP, EOPNOTSUPP}

---------------------------------------------------------------------------
(* Names and descriptor slots.                                             *)

\* socket names callers ask for; "z" and the empty name are in no service
\* descriptor and "x_NUL_y" stands for a name with an embedded null byte
Names == {"tcp", "udp", "z", "", "x_NUL_y"}

NulNames == {"x_NUL_y"}

\* what one slot of the array returned by launch_activate_socket refers to:
\* a listening stream socket, a datagram socket, a stream socket the net
\* package cannot adopt, a zero slot, a negative slot
SlotKinds == {"stream", "dgram", "streamx", "zero", "neg"}

SockKinds == {"stream", "dgram", "streamx"}

Arrays == UNION {[1..n -> SlotKinds] : n \in 1..MaxCount}

\* the service descriptor of the test suite, reduced to its shapes
TestPlist ==
    [n \in {"tcp", "udp"} |->
        CASE n = "tcp" -> <<"stream">>
          [] n = "udp" -> <<"dgram">>]

EmptyPlist == [n \in {} |-> <<>>]

\* one name with any array
DrawnPlists == {[n \in {"tcp"} |-> a] : a \in Arrays}

---------------------------------------------------------------------------
(* The descriptor table and the standard library calls the code makes.     *)
(* The mutable state an operation touches is passed as a record            *)
(* w = [fdtab, activated, fileObjs, lnObjs, ncalls, nquery, log]; ncalls   *)
(* and nquery count the invocations of launch_activate_socket and the      *)
(* getsockopt queries made since the record was built, and log lists the   *)
(* foreign calls and pinner calls made since then, in order.               *)

\* the descriptors a process starts with
StdioTab == [fd \in {0, 1, 2} |-> [k |-> "tty", s |-> <<"stdio", fd>>]]

\* the kernel hands out the lowest descriptor number that is free
LowestFree(tab) ==
    CHOOSE n \in 0..Cardinality(DOMAIN tab) :
        /\ n \notin DOMAIN tab
        /\ \A m \in 0..(n - 1) : m \in DOMAIN tab

CloseFd(tab, fd) == [f \in (DOMAIN tab) \ {fd} |-> tab[f]]

NoSock == <<"none", 0>>

\* os.NewFile(uintptr(fd), name): nil for a negative descriptor number
NewFile(fd, tab) ==
    IF fd < 0
    THEN [fd |-> fd, st |-> "nil", s |-> NoSock]
    ELSE [fd |-> fd, st |-> "open",
          s |-> IF fd \in DOMAIN tab THEN tab[fd].s ELSE NoSock]

\* file.Fd(): the descriptor, or -1 for a nil or closed file
Fd(file) == IF file.st = "open" THEN file.fd ELSE -1

\* syscall.GetsockoptInt(fd, SOL_SOCKET, SO_TYPE)
GetsockoptInt(fd, tab) ==
    IF fd \notin DOMAIN tab THEN [stype |-> -1, err |-> EBADF]
    ELSE IF tab[fd].k \notin SockKinds THEN [stype |-> -1, err |-> ENOTSOCK]
    ELSE IF tab[fd].k \in {"stream", "streamx"}
         THEN [stype |-> SOCK_STREAM, err |-> 0]
         ELSE [stype |-> SOCK_DGRAM, err |-> 0]

\* why the net package refuses a descriptor of kind k: no socket, a socket
\* of a family it does not know, a socket of the other type
AdoptErrno(k) ==
    IF k \notin SockKinds THEN ENOTSOCK
    ELSE IF k = "streamx" THEN EPROTONOSUPPORT
    ELSE EINVAL

\* the listener shares the file's descriptor instead of duplicating it
FileConnShared(id, want, w) ==
    LET file == w.fileObjs[id]
        fd == Fd(file)
    IN  IF fd \notin DOMAIN w.fdtab
        THEN [ok |-> FALSE, err |-> Errorf("file", EBADF), w |-> w]
        ELSE IF w.fdtab[fd].k # want
        THEN [ok |-> FALSE, err |-> Errorf("file", AdoptErrno(w.fdtab[fd].k)), w |-> w]
        ELSE [ok |-> TRUE, err |-> NilErr,
              w |-> [w EXCEPT
                  !.lnObjs = Append(@, [fd |-> fd, st |-> "open",
                                        s |-> w.fdtab[fd].s, k |-> want,
                                        file |-> id])]]

\* net.FileListener(file) (want = "stream") and net.FilePacketConn(file)
\* (want = "dgram"): the result owns a duplicate of the file's descriptor
FileConn(id, want, w) ==
    LET file == w.fileObjs[id]
        fd == Fd(file)
        dup == LowestFree(w.fdtab)
    IN  IF fd \notin DOMAIN w.fdtab
        THEN [ok |-> FALSE, err |-> Errorf("file", EBADF), w |-> w]
        ELSE IF w.fdtab[fd].k # want
        THEN [ok |-> FALSE, err |-> Errorf("file", AdoptErrno(w.fdtab[fd].k)), w |-> w]
        ELSE [ok |-> TRUE, err |-> NilErr,
              w |-> [w EXCEPT
                  !.fdtab = (dup :> w.fdtab[fd]) @@ @,
                  !.lnObjs = Append(@, [fd |-> dup, st |-> "open",
                                        s |-> w.fdtab[fd].s, k |-> want,
                                        file |-> id])]]

---------------------------------------------------------------------------
(* The service manager.                                                    *)

RECURSIVE Install(_, _, _, _, _)
\* launchd passes the sockets of a name into the process, one descriptor
\* per slot, and writes their numbers into the array
Install(name, slots, i, tab, arr) ==
    IF i > Len(slots) THEN [tab |-> tab, arr |-> arr]
    ELSE IF slots[i] = "zero" THEN Install(name, slots, i + 1, tab, Append(arr, 0))
    ELSE IF slots[i] = "neg" THEN Install(name, slots, i + 1, tab, Append(arr, -1))
    ELSE LET fd == LowestFree(tab)
         IN  Install(name, slots, i + 1,
                     (fd :> [k |-> slots[i], s |-> <<name, i>>]) @@ tab,
                     Append(arr, fd))

\* the address of the array launchd allocates for the descriptors
ExtBuf == 4096

\* result words launchd may answer besides ENOENT, ESRCH and EALREADY
OtherCodes == {EBADF, EINVAL}

\* nothing goes wrong: no raw error from the trampolines and no result
\* word but the documented ones
NoFaults == [callErr |-> 0, code |-> 0, freeErr |-> 0]

\* callErr: the raw error syscall_syscall reports for the call of
\* launch_activate_socket; code: the result word launchd answers in place
\* of an activation; freeErr: the raw error syscall_syscall reports for
\* the call of free
Faults ==
    {f \in [callErr : {0, EINVAL}, code : {0} \cup OtherCodes, freeErr : {0, EINVAL}] :
        Cardinality({k \in {"callErr", "code", "freeErr"} : f[k] # 0}) <= 2}

\* one entry of the record of foreign calls and pinner calls of a request:
\* what was called, with what, and what it answered
Ev(ev, arg) == [ev |-> ev, arg |-> arg]

\* int launch_activate_socket(const char *name, int **fds, size_t *cnt),
\* called through syscall_syscall: result word, raw error, the address
\* written to *fds, the array at that address, the count.
launch_activate_socket(name, w0) ==
    LET w == [w0 EXCEPT !.ncalls = @ + 1]
        t == IF ~managed
             THEN [r1 |-> ESRCH, fd |-> 0, fds |-> <<>>, count |-> 0, w |-> w]
             ELSE IF name \notin DOMAIN plist
             THEN [r1 |-> missingCode, fd |-> 0, fds |-> <<>>, count |-> 0, w |-> w]
             ELSE IF name \in w.activated
             THEN [r1 |-> EALREADY, fd |-> 0, fds |-> <<>>, count |-> 0, w |-> w]
             ELSE IF faults.code # 0
             THEN [r1 |-> faults.code, fd |-> 0, fds |-> <<>>, count |-> 0, w |-> w]
             ELSE LET got == Install(name, plist[name], 1, w.fdtab, <<>>)
                  IN  [r1 |-> 0, fd |-> IF Len(got.arr) = 0 THEN 0 ELSE ExtBuf,
                       fds |-> got.arr, count |-> Len(got.arr),
                       w |-> [w EXCEPT !.fdtab = got.tab,
                                       !.activated = @ \cup {name}]]
    IN  [r1 |-> t.r1, e1 |-> faults.callErr, fd |-> t.fd, fds |-> t.fds,
         count |-> t.count,
         w |-> [t.w EXCEPT !.log = Append(@, Ev("launch_activate_socket",
                   [name |-> name, r1 |-> t.r1, e1 |-> faults.callErr,
                    fd |-> t.fd, fds |-> t.fds, count |-> t.count]))]]

\* free(3) called through syscall_syscall: the raw error
libc_free(fd) == faults.freeErr

---------------------------------------------------------------------------
(* The package on darwin.  Each operation returns the list it hands back   *)
(* (ids into fileObjs or lnObjs; <<>> is the nil list), its error and the  *)
(* state it leaves.                                                        *)

\* every name is taken for a C string
BytePtrFromStringLax(name) == 0

\* syscall.BytePtrFromString(name): EINVAL for a name with a null byte
BytePtrFromString(name) == IF name \in NulNames THEN EINVAL ELSE 0

\* case ENOENT of the switch on the result word, with ESRCH in its place
errNoSuchSocketCollapsed(name) ==
    Errorf("launchd: no such socket", ESRCH)

\* case uintptr(syscall.ENOENT)
errNoSuchSocket(name) ==
    Errorf("launchd: no such socket", ENOENT)

\* case ESRCH of the switch on the result word, reported as ENOENT
errNotManagedAsNotFound ==
    Errorf("launchd: socket/process is not managed by launchd", ENOENT)

\* case uintptr(syscall.ESRCH)
errNotManaged ==
    Errorf("launchd: socket/process is not managed by launchd", ESRCH)

\* case EALREADY of the switch on the result word, returning no error
errAlreadyActivatedNil(name) == NilErr

\* case uintptr(syscall.EALREADY)
errAlreadyActivated(name) ==
    Errorf("launchd: socket has been already activated", EALREADY)

\* the default case of the switch on the result word, with the result
\* word replaced by EINVAL
errUnknownCodeLost(r1) ==
    Errorf("launchd: unknown error code", EINVAL)

\* default: fmt.Errorf("launchd: unknown error code : %w", syscall.Errno(r1))
errUnknownCode(r1) ==
    Errorf("launchd: unknown error code", r1)

\* var pinner runtime.Pinner; pinner.Pin(&fd); pinner.Pin(&count);
\* pinner.Pin(&libcName)
pinnerPin(w) ==
    [w EXCEPT !.log = @ \o <<Ev("Pin", "&fd"), Ev("Pin", "&count"),
                              Ev("Pin", "&libcName")>>]

\* pinner.Unpin() is not deferred: it is called on the successful return
\* only
pinnerUnpinOnSuccess(r) ==
    IF r.err.isNil THEN [r EXCEPT !.w.log = Append(@, Ev("Unpin", "all"))] ELSE r

\* defer pinner.Unpin(): runs when listenerFdsWithName returns r
pinnerUnpin(r) == [r EXCEPT !.w.log = Append(@, Ev("Unpin", "all"))]

\* the array is freed before it is copied
freeThenClone(c) ==
    LET w1 == [c.w EXCEPT !.log = Append(@, Ev("free",
                   [fd |-> c.fd, e1 |-> libc_free(c.fd)]))]
    IN  [fdSlice |-> SubSeq(c.fds, 1, c.count), e1 |-> libc_free(c.fd),
         w |-> [w1 EXCEPT !.log = Append(@, Ev("Clone",
                   [fd |-> c.fd, count |-> c.count]))]]

\* the raw error of free is dropped: _, _, _ = syscall_syscall(free, ...)
cloneThenFreeUnchecked(c) ==
    LET w1 == [c.w EXCEPT !.log = Append(@, Ev("Clone",
                   [fd |-> c.fd, count |-> c.count]))]
    IN  [fdSlice |-> SubSeq(c.fds, 1, c.count), e1 |-> 0,
         w |-> [w1 EXCEPT !.log = Append(@, Ev("free",
                   [fd |-> c.fd, e1 |-> libc_free(c.fd)]))]]

\* fdSlice := slices.Clone(unsafe.Slice(*fd, count));
\* _, _, e1 = syscall_syscall(libc_trampoline_free_addr, fd, 0, 0)
cloneThenFree(c) ==
    LET w1 == [c.w EXCEPT !.log = Append(@, Ev("Clone",
                   [fd |-> c.fd, count |-> c.count]))]
    IN  [fdSlice |-> SubSeq(c.fds, 1, c.count), e1 |-> libc_free(c.fd),
         w |-> [w1 EXCEPT !.log = Append(@, Ev("free",
                   [fd |-> c.fd, e1 |-> libc_free(c.fd)]))]]

\* free is called on fd before the return for a count of 0
noSocketsFoundFreed(c) ==
    [fds |-> <<>>,
     w |-> [c.w EXCEPT !.log = Append(@, Ev("free",
               [fd |-> c.fd, e1 |-> libc_free(c.fd)]))],
     err |-> Errorf("launchd: no sockets found", ENOENT)]

\* if count == 0 { return nil, fmt.Errorf("launchd: no sockets found: %w",
\* syscall.ENOENT) }
noSocketsFound(c) ==
    [fds |-> <<>>, w |-> c.w,
     err |-> Errorf("launchd: no sockets found", ENOENT)]

\* the raw error is looked at only when the result word is not 0
rawErrorOfFailure(c) == IF c.r1 # 0 THEN c.e1 ELSE 0

\* r1, _, e1 := syscall_syscall(...): the raw error tested by if e1 != 0
rawError(c) == c.e1

\* what listenerFdsWithName makes of the call's result word, raw error,
\* array and count: if e1 != 0 { ... } switch r1 { ... }
switchR1(name, c) ==
    IF rawError(c) # 0
    THEN [fds |-> <<>>, w |-> c.w,
          err |-> Errorf("launchd: error calling launch_activate_socket", rawError(c))]
    ELSE IF c.r1 = 0
    THEN IF c.count = 0
         THEN noSocketsFound(c)
         ELSE LET m == cloneThenFree(c)
              IN  IF m.e1 # 0
                  THEN [fds |-> <<>>, w |-> m.w,
                        err |-> Errorf("launchd: error calling free on *fd", m.e1)]
                  ELSE [fds |-> m.fdSlice, err |-> NilErr, w |-> m.w]
    ELSE IF c.r1 = ENOENT
    THEN [fds |-> <<>>, w |-> c.w,
          err |-> errNoSuchSocket(name)]
    ELSE IF c.r1 = ESRCH
    THEN [fds |-> <<>>, w |-> c.w,
          err |-> errNotManaged]
    ELSE IF c.r1 = EALREADY
    THEN [fds |-> <<>>, w |-> c.w,
          err |-> errAlreadyActivated(name)]
    ELSE [fds |-> <<>>, w |-> c.w,
          err |-> errUnknownCode(c.r1)]

\* a call that failed is made once more
listenerFdsWithNameRetry(name, w) ==
    IF BytePtrFromString(name) # 0
    THEN [fds |-> <<>>, err |-> Errorf("launchd: invalid socket name", EINVAL), w |-> w]
    ELSE LET c == launch_activate_socket(name, pinnerPin(w))
         IN  IF c.r1 # 0
             THEN pinnerUnpin(switchR1(name, launch_activate_socket(name, c.w)))
             ELSE pinnerUnpin(switchR1(name, c))

listenerFdsWithName(name, w) ==
    IF BytePtrFromString(name) # 0
    THEN [fds |-> <<>>, err |-> Errorf("launchd: invalid socket name", EINVAL), w |-> w]
    ELSE pinnerUnpin(switchR1(name, launch_activate_socket(name, pinnerPin(w))))

RECURSIVE filesLoopNoSkip(_, _, _, _)
\* every slot is wrapped, the zero slots too
filesLoopNoSkip(fdSlice, i, res, w) ==
    IF i > Len(fdSlice) THEN [res |-> res, err |-> NilErr, w |-> w]
    ELSE filesLoopNoSkip(fdSlice, i + 1,
             Append(res, Len(w.fileObjs) + 1),
             [w EXCEPT !.fileObjs = Append(@, NewFile(fdSlice[i], w.fdtab))])

RECURSIVE filesLoop(_, _, _, _)
\* for _, fd := range fdSlice { if fd != 0 { files = append(files, os.NewFile(..)) } }
filesLoop(fdSlice, i, res, w) ==
    IF i > Len(fdSlice) THEN [res |-> res, err |-> NilErr, w |-> w]
    ELSE IF fdSlice[i] # 0
    THEN filesLoop(fdSlice, i + 1,
             Append(res, Len(w.fileObjs) + 1),
             [w EXCEPT !.fileObjs = Append(@, NewFile(fdSlice[i], w.fdtab))])
    ELSE filesLoop(fdSlice, i + 1, res, w)

\* files after listenerFdsWithName has returned r
filesOf(r) ==
    IF ~r.err.isNil
    THEN [res |-> <<>>, err |-> r.err, w |-> r.w]
    ELSE filesLoop(r.fds, 1, <<>>, r.w)

\* files of the darwin build
files(name, w) == filesOf(listenerFdsWithName(name, w))

\* the stub wraps no error number
files_othersPlain(name, w) ==
    [res |-> <<>>, w |-> w,
     err |-> [isNil |-> FALSE, msg |-> "launchd: only supported on macOS", leaves |-> <<>>]]

\* files, listeners and packetListeners of every other build
files_others(name, w) ==
    [res |-> <<>>, err |-> Errorf("launchd: only supported on macOS", ENOTSUP), w |-> w]

listeners_others(name, w) ==
    [res |-> <<>>, err |-> Errorf("launchd: only supported on macOS", ENOTSUP), w |-> w]

packetListeners_others(name, w) ==
    [res |-> <<>>, err |-> Errorf("launchd: only supported on macOS", ENOTSUP), w |-> w]

\* Files: the build tag selects the implementation
Files(name, w) ==
    IF platform = "darwin" THEN files(name, w) ELSE files_others(name, w)

\* the type test reports EOPNOTSUPP
sockTypeErrOther(have, stype) ==
    IF have # stype THEN Errorf("name", EOPNOTSUPP) ELSE NilErr

\* if stype != syscall.SOCK_STREAM (SOCK_DGRAM in packetListeners)
sockTypeErr(have, stype) ==
    IF have # stype THEN Errorf("name", ESOCKTNOSUPPORT) ELSE NilErr

\* a file that fails the type test is closed before the loop goes on
adaptStepClosing(id, want, stype, acc0) ==
    LET acc == [acc0 EXCEPT !.w.nquery = @ + 1]
        file == acc.w.fileObjs[id]
        q == GetsockoptInt(Fd(file), acc.w.fdtab)
    IN  IF q.err # 0
        THEN [acc EXCEPT !.err = Join(@, Errorf("getsockopt", q.err))]
        ELSE IF ~sockTypeErr(q.stype, stype).isNil
        THEN [acc EXCEPT !.err = Join(@, sockTypeErr(q.stype, stype)),
                         !.w.fileObjs[id].st = "closed",
                         !.w.fdtab = CloseFd(@, file.fd)]
        ELSE LET l == FileConn(id, want, acc.w)
             IN  IF ~l.ok
                 THEN [acc EXCEPT !.err = Join(@, l.err)]
                 ELSE [res |-> Append(acc.res, Len(l.w.lnObjs)),
                       err |-> acc.err, w |-> l.w]

\* one round of the loop of listeners (stype = SOCK_STREAM, want = "stream")
\* and of packetListeners (stype = SOCK_DGRAM, want = "dgram")
adaptStep(id, want, stype, acc0) ==
    LET acc == [acc0 EXCEPT !.w.nquery = @ + 1]
        q == GetsockoptInt(Fd(acc.w.fileObjs[id]), acc.w.fdtab)
    IN  IF q.err # 0
        THEN [acc EXCEPT !.err = Join(@, Errorf("getsockopt", q.err))]
        ELSE IF ~sockTypeErr(q.stype, stype).isNil
        THEN [acc EXCEPT !.err = Join(@, sockTypeErr(q.stype, stype))]
        ELSE LET l == FileConn(id, want, acc.w)
             IN  IF ~l.ok
                 THEN [acc EXCEPT !.err = Join(@, l.err)]
                 ELSE [res |-> Append(acc.res, Len(l.w.lnObjs)),
                       err |-> acc.err, w |-> l.w]

RECURSIVE adaptLoopStop(_, _, _, _, _)
\* the loop ends at the first file that fails: break in place of continue
adaptLoopStop(ids, i, want, stype, acc) ==
    IF i > Len(ids) \/ ~acc.err.isNil THEN acc
    ELSE adaptLoopStop(ids, i + 1, want, stype, adaptStep(ids[i], want, stype, acc))

RECURSIVE adaptLoop(_, _, _, _, _)
\* for _, file := range files { ... }
adaptLoop(ids, i, want, stype, acc) ==
    IF i > Len(ids) THEN acc
    ELSE adaptLoop(ids, i + 1, want, stype, adaptStep(ids[i], want, stype, acc))

\* an error makes the operation hand back no listener
adaptEndDrop(a, msg) ==
    IF ~a.err.isNil
    THEN [a EXCEPT !.res = <<>>, !.err = Wrap(msg, @)]
    ELSE a

\* if err != nil { return slices.Clip(listeners), fmt.Errorf(msg, err) }
\* return slices.Clip(listeners), nil
adaptEnd(a, msg) ==
    IF ~a.err.isNil
    THEN [a EXCEPT !.err = Wrap(msg, @)]
    ELSE a

\* an error of Files is dropped: if err != nil { return nil, nil }
listenersSwallow(name, w) ==
    LET f == Files(name, w)
    IN  IF ~f.err.isNil
        THEN [res |-> <<>>, err |-> NilErr, w |-> f.w]
        ELSE LET a == adaptLoop(f.res, 1, "stream", SOCK_STREAM,
                                [res |-> <<>>, err |-> NilErr, w |-> f.w])
             IN  adaptEnd(a, "launchd: error building listeners")

\* an error of Files is wrapped like one of the loop
listenersOfWrapped(f) ==
    IF ~f.err.isNil
    THEN [res |-> <<>>, err |-> Wrap("launchd: error building listeners", f.err), w |-> f.w]
    ELSE LET a == adaptLoop(f.res, 1, "stream", SOCK_STREAM,
                            [res |-> <<>>, err |-> NilErr, w |-> f.w])
         IN  adaptEnd(a, "launchd: error building listeners")

\* listeners after Files has returned f
listenersOf(f) ==
    IF ~f.err.isNil
    THEN [res |-> <<>>, err |-> f.err, w |-> f.w]
    ELSE LET a == adaptLoop(f.res, 1, "stream", SOCK_STREAM,
                            [res |-> <<>>, err |-> NilErr, w |-> f.w])
         IN  adaptEnd(a, "launchd: error building listeners")

\* listeners of the darwin build
listeners(name, w) == listenersOf(Files(name, w))

\* an error of Files is reported as a socket of the wrong type
packetListenersTypeFirst(name, w) ==
    LET f == Files(name, w)
    IN  IF ~f.err.isNil
        THEN [res |-> <<>>, err |-> Errorf("name", ESOCKTNOSUPPORT), w |-> f.w]
        ELSE LET a == adaptLoop(f.res, 1, "dgram", SOCK_DGRAM,
                                [res |-> <<>>, err |-> NilErr, w |-> f.w])
             IN  adaptEnd(a, "launchd")

\* packetListeners tests for SOCK_STREAM as listeners does
packetListenersStream(name, w) ==
    LET f == Files(name, w)
    IN  IF ~f.err.isNil
        THEN [res |-> <<>>, err |-> f.err, w |-> f.w]
        ELSE LET a == adaptLoop(f.res, 1, "dgram", SOCK_STREAM,
                                [res |-> <<>>, err |-> NilErr, w |-> f.w])
             IN  adaptEnd(a, "launchd")

\* packetListeners after Files has returned f
packetListenersOf(f) ==
    IF ~f.err.isNil
    THEN [res |-> <<>>, err |-> f.err, w |-> f.w]
    ELSE LET a == adaptLoop(f.res, 1, "dgram", SOCK_DGRAM,
                            [res |-> <<>>, err |-> NilErr, w |-> f.w])
         IN  adaptEnd(a, "launchd")

\* packetListeners of the darwin build
packetListeners(name, w) == packetListenersOf(Files(name, w))

Listeners(name, w) ==
    IF platform = "darwin" THEN listeners(name, w) ELSE listeners_others(name, w)

PacketListeners(name, w) ==
    IF platform = "darwin" THEN packetListeners(name, w)
    ELSE packetListeners_others(name, w)

\* Deprecated: Use Listeners.
TCPListeners(name, w) == Listeners(name, w)

\* Deprecated: Use PacketListeners.
UDPListeners(name, w) == PacketListeners(name, w)

---------------------------------------------------------------------------
(* IsManagedByLaunchd.  The answers of the four foreign routines of one    *)
(* call are a record x: the raw error of each call (newErr, msgErr,        *)
(* typeErr, getErr), the object launch_data_new_string returns (newPtr)    *)
(* and the one launch_msg returns (msgPtr), 0 for NULL, the data type of   *)
(* the response (type) and the error number it carries (errno).  The       *)
(* result is the boolean, the error and the log of the foreign calls made, *)
(* each with the object handed to it, in the order they run.               *)

\* the first n foreign calls of isManagedByLaunchd, each with the object it
\* is given: launch_data_new_string("CheckIn"), launch_msg(launchMsgString),
\* launch_data_get_type(launchMsgResponse),
\* launch_data_get_errno(launchMsgResponse)
foreignCalls(x, n) ==
    SubSeq(<<Ev("launch_data_new_string", 0), Ev("launch_msg", x.newPtr),
             Ev("launch_data_get_type", x.msgPtr),
             Ev("launch_data_get_errno", x.msgPtr)>>, 1, n)

\* the deferred calls of launch_data_free that run at the return, last
\* registered first
deferred(ptrs) == [i \in 1..Len(ptrs) |-> Ev("launch_data_free", ptrs[i])]

\* the data type of the response is not looked at
isManagedByLaunchdAnyType(x) ==
    IF x.newErr # 0
    THEN [ok |-> FALSE, log |-> foreignCalls(x, 1) \o deferred(<<>>),
          err |-> Errorf("launchd(libc): error calling launch_data_new_string", x.newErr)]
    ELSE IF x.newPtr = 0
    THEN [ok |-> FALSE, log |-> foreignCalls(x, 1) \o deferred(<<x.newPtr>>),
          err |-> ErrorfPlain("launchd(libc): launch_data_new_string returned NULL")]
    ELSE IF x.msgErr # 0
    THEN [ok |-> FALSE, log |-> foreignCalls(x, 2) \o deferred(<<x.newPtr>>),
          err |-> Errorf("launchd(libc): error calling launch_msg", x.msgErr)]
    ELSE IF x.msgPtr = 0
    THEN [ok |-> FALSE, log |-> foreignCalls(x, 2) \o deferred(<<x.msgPtr, x.newPtr>>),
          err |-> ErrorfPlain("launchd(libc): launch_msg returned NULL")]
    ELSE IF x.getErr # 0
    THEN [ok |-> FALSE, log |-> foreignCalls(x, 4) \o deferred(<<x.msgPtr, x.newPtr>>),
          err |-> Errorf("launchd(libc): error calling launch_data_get_errno", x.getErr)]
    ELSE IF x.errno = 0
    THEN [ok |-> TRUE, err |-> NilErr,
          log |-> foreignCalls(x, 4) \o deferred(<<x.msgPtr, x.newPtr>>)]
    ELSE [ok |-> FALSE, log |-> foreignCalls(x, 4) \o deferred(<<x.msgPtr, x.newPtr>>),
          err |-> Errorf("launchd(libc): launch_msg returned error", x.errno)]

isManagedByLaunchd(x) ==
    IF x.newErr # 0
    THEN [ok |-> FALSE, log |-> foreignCalls(x, 1) \o deferred(<<>>),
          err |-> Errorf("launchd(libc): error calling launch_data_new_string", x.newErr)]
    ELSE IF x.newPtr = 0
    THEN [ok |-> FALSE, log |-> foreignCalls(x, 1) \o deferred(<<x.newPtr>>),
          err |-> ErrorfPlain("launchd(libc): launch_data_new_string returned NULL")]
    ELSE IF x.msgErr # 0
    THEN [ok |-> FALSE, log |-> foreignCalls(x, 2) \o deferred(<<x.newPtr>>),
          err |-> Errorf("launchd(libc): error calling launch_msg", x.msgErr)]
    ELSE IF x.msgPtr = 0
    THEN [ok |-> FALSE, log |-> foreignCalls(x, 2) \o deferred(<<x.msgPtr, x.newPtr>>),
          err |-> ErrorfPlain("launchd(libc): launch_msg returned NULL")]
    ELSE IF x.typeErr # 0
    THEN [ok |-> FALSE, log |-> foreignCalls(x, 3) \o deferred(<<x.msgPtr, x.newPtr>>),
          err |-> Errorf("launchd(libc): error calling launch_data_get_type", x.typeErr)]
    ELSE IF x.type # launchDataTypeErrno
    THEN [ok |-> FALSE, log |-> foreignCalls(x, 3) \o deferred(<<x.msgPtr, x.newPtr>>),
          err |-> ErrorfPlain("launchd(libc): launch_msg returned unexpected data type")]
    ELSE IF x.getErr # 0
    THEN [ok |-> FALSE, log |-> foreignCalls(x, 4) \o deferred(<<x.msgPtr, x.newPtr>>),
          err |-> Errorf("launchd(libc): error calling launch_data_get_errno", x.getErr)]
    ELSE IF x.errno = 0
    THEN [ok |-> TRUE, err |-> NilErr,
          log |-> foreignCalls(x, 4) \o deferred(<<x.msgPtr, x.newPtr>>)]
    ELSE [ok |-> FALSE, log |-> foreignCalls(x, 4) \o deferred(<<x.msgPtr, x.newPtr>>),
          err |-> Errorf("launchd(libc): launch_msg returned error", x.errno)]

IsManagedByLaunchd(x) == isManagedByLaunchd(x)

\* what the foreign routines can answer during one call: raw errors, NULL
\* or an object, every data type, error numbers in the response
CheckInAnswers ==
    [newErr : {0, EINVAL}, newPtr : {0, 16},
     msgErr : {0, EINVAL}, msgPtr : {0, 32},
     typeErr : {0, EINVAL}, type : launchDataTypeDict..launchDataTypeMachport,
     getErr : {0, EINVAL}, errno : {0, ESRCH, EINVAL}]

NoCheckIn == [called |-> FALSE]

---------------------------------------------------------------------------
(* Concurrent callers.                                                     *)

Goroutines == {"g1", "g2"}

\* the operations a goroutine calls (the deprecated aliases are calls of
\* Listeners and PacketListeners)
Ops == {"Files", "Listeners", "PacketListeners"}

Idle == [pc |-> "idle"]

\* var fd uintptr; var count uint
ZeroFrame == [fd |-> 0, fds |-> <<>>, count |-> 0]

\* fd and count are package variables, one pair for every call
frameOfShared(g) == "g1"

\* fd and count are locals of listenerFdsWithName: each call has its own
frameOf(g) == g

---------------------------------------------------------------------------
(* The state machine: a process that calls the package and closes what it  *)
(* was given.                                                              *)

World == [fdtab |-> fdtab, activated |-> activated,
          fileObjs |-> fileObjs, lnObjs |-> lnObjs,
          ncalls |-> 0, nquery |-> 0, log |-> <<>>]

NoCall == [op |-> "none", name |-> "", res |-> <<>>, err |-> NilErr,
           ncalls |-> 0, nquery |-> 0, log |-> <<>>]

Init ==
    /\ platform \in {"darwin", "other"}
    /\ managed \in (IF platform = "darwin" THEN BOOLEAN ELSE {FALSE})
    /\ missingCode \in (IF managed THEN {ENOENT, ESRCH} ELSE {ESRCH})
    /\ plist \in (IF managed THEN {TestPlist} \cup DrawnPlists ELSE {EmptyPlist})
    /\ activated = {}
    /\ fdtab = StdioTab
    /\ fileObjs = <<>>
    /\ lnObjs = <<>>
    /\ last = NoCall
    /\ checkin = NoCheckIn
    /\ gs = [g \in Goroutines |-> Idle]
    /\ frames = [g \in Goroutines |-> ZeroFrame]
    /\ faults = NoFaults

Returned(op, name, r) ==
    /\ fdtab' = r.w.fdtab
    /\ activated' = r.w.activated
    /\ fileObjs' = r.w.fileObjs
    /\ lnObjs' = r.w.lnObjs
    /\ last' = [op |-> op, name |-> name, res |-> r.res, err |-> r.err,
                ncalls |-> r.w.ncalls, nquery |-> r.w.nquery, log |-> r.w.log]
    /\ UNCHANGED <<platform, managed, missingCode, plist, checkin, gs, frames, faults>>

CallFiles(name) == Returned("Files", name, Files(name, World))

CallListeners(name) == Returned("Listeners", name, Listeners(name, World))

CallPacketListeners(name) ==
    Returned("PacketListeners", name, PacketListeners(name, World))

CallTCPListeners(name) == Returned("TCPListeners", name, TCPListeners(name, World))

CallUDPListeners(name) == Returned("UDPListeners", name, UDPListeners(name, World))

\* l.Close() on a listener or packet connection the process holds
CloseListener(i) ==
    /\ lnObjs[i].st = "open"
    /\ lnObjs' = [lnObjs EXCEPT ![i].st = "closed"]
    /\ fdtab' = CloseFd(fdtab, lnObjs[i].fd)
    /\ UNCHANGED <<platform, managed, missingCode, plist, activated, fileObjs, last,
                   checkin, gs, frames, faults>>

\* f.Close() on a file: by the caller that got it from Files, or by the
\* finalizer of a file that listeners or packetListeners dropped
CloseFile(j) ==
    /\ fileObjs[j].st = "open"
    /\ fileObjs' = [fileObjs EXCEPT ![j].st = "closed"]
    /\ fdtab' = CloseFd(fdtab, fileObjs[j].fd)
    /\ UNCHANGED <<platform, managed, missingCode, plist, activated, lnObjs, last,
                   checkin, gs, frames, faults>>

Next ==
    \/ \E name \in Names : CallFiles(name)
    \/ \E name \in Names : CallListeners(name)
    \/ \E name \in Names : CallPacketListeners(name)
    \/ \E name \in Names : CallTCPListeners(name)
    \/ \E name \in Names : CallUDPListeners(name)
    \/ \E i \in 1..Len(lnObjs) : CloseListener(i)
    \/ \E j \in 1..Len(fileObjs) : CloseFile(j)

Spec == Init /\ [][Next]_vars

---------------------------------------------------------------------------
(* A process on macOS in which foreign calls can go wrong: the trampoline  *)
(* reports a raw error for launch_activate_socket or for free, launchd     *)
(* answers a result word the documentation does not list, or it answers 0  *)
(* for a name it holds no socket for.  What goes wrong is drawn at the     *)
(* start and goes wrong in every call.                                     *)

\* a name for which launchd holds no socket
NoSocketPlist == [n \in {"tcp"} |-> <<>>]

\* one name with an array of the longest size: stream sockets and zero slots
FaultPlists == {[n \in {"tcp"} |-> a] : a \in [1..MaxCount -> {"stream", "zero"}]}

InitFault ==
    /\ platform = "darwin"
    /\ managed \in BOOLEAN
    /\ missingCode \in (IF managed THEN {ENOENT, ESRCH} ELSE {ESRCH})
    /\ plist \in (IF managed THEN {NoSocketPlist} \cup FaultPlists ELSE {EmptyPlist})
    /\ activated = {}
    /\ fdtab = StdioTab
    /\ fileObjs = <<>>
    /\ lnObjs = <<>>
    /\ last = NoCall
    /\ checkin = NoCheckIn
    /\ gs = [g \in Goroutines |-> Idle]
    /\ frames = [g \in Goroutines |-> ZeroFrame]
    /\ faults \in Faults

SpecFault == InitFault /\ [][Next]_vars

---------------------------------------------------------------------------
(* A process on macOS that asks whether launchd manages it; the answers    *)
(* the foreign routines will give are drawn at the start.                  *)

InitCheckIn ==
    /\ platform = "darwin"
    /\ managed \in BOOLEAN
    /\ missingCode = ESRCH
    /\ plist = IF managed THEN TestPlist ELSE EmptyPlist
    /\ activated = {}
    /\ fdtab = StdioTab
    /\ fileObjs = <<>>
    /\ lnObjs = <<>>
    /\ last = NoCall
    /\ checkin \in {[called |-> FALSE, x |-> x] : x \in CheckInAnswers}
    /\ gs = [g \in Goroutines |-> Idle]
    /\ frames = [g \in Goroutines |-> ZeroFrame]
    /\ faults = NoFaults

\* the call, with the answers checkin.x of the foreign routines
CallIsManagedByLaunchd ==
    /\ ~checkin.called
    /\ checkin' = [called |-> TRUE, x |-> checkin.x,
                   ret |-> IsManagedByLaunchd(checkin.x)]
    /\ UNCHANGED <<platform, managed, missingCode, plist, activated, fdtab,
                   fileObjs, lnObjs, last, gs, frames, faults>>

NextCheckIn == CallIsManagedByLaunchd

SpecCheckIn == InitCheckIn /\ [][NextCheckIn]_vars

---------------------------------------------------------------------------
(* A process on macOS in which two goroutines call the package, one call   *)
(* each, at the same time.  A call is two steps: up to the return of       *)
(* launch_activate_socket, which launchd serves one at a time, and from    *)
(* there to the return of the operation.                                   *)

InitConc ==
    /\ platform = "darwin"
    /\ managed \in BOOLEAN
    /\ missingCode \in (IF managed THEN {ENOENT, ESRCH} ELSE {ESRCH})
    /\ plist = IF managed THEN TestPlist ELSE EmptyPlist
    /\ activated = {}
    /\ fdtab = StdioTab
    /\ fileObjs = <<>>
    /\ lnObjs = <<>>
    /\ last = NoCall
    /\ checkin = NoCheckIn
    /\ gs = [g \in Goroutines |-> Idle]
    /\ frames = [g \in Goroutines |-> ZeroFrame]
    /\ faults = NoFaults

\* the operation op run from its call to its return in the state w
RunAlone(op, name, w) ==
    CASE op = "Files" -> Files(name, w)
      [] op = "Listeners" -> Listeners(name, w)
      [] op = "PacketListeners" -> PacketListeners(name, w)

\* what a caller sees of a result: the error, and the sockets behind the
\* files or listeners of the list, in order
Seen(op, r) ==
    [err |-> r.err,
     socks |-> [i \in 1..Len(r.res) |->
                  IF op = "Files" THEN r.w.fileObjs[r.res[i]].s
                  ELSE r.w.lnObjs[r.res[i]].s]]

\* goroutine g calls op(name) and runs up to the return of
\* launch_activate_socket, or to the return of op for a name that is no
\* C string
Invoke(g, op, name) ==
    /\ gs[g].pc = "idle"
    /\ IF BytePtrFromString(name) # 0
       THEN LET r == RunAlone(op, name, World)
            IN  /\ gs' = [gs EXCEPT ![g] =
                          [pc |-> "done", op |-> op, name |-> name,
                           r1 |-> 0, e1 |-> 0, res |-> r.res,
                           alone |-> Seen(op, r), out |-> Seen(op, r)]]
                /\ UNCHANGED <<frames, fdtab, activated>>
       ELSE LET c == launch_activate_socket(name, pinnerPin(World))
            IN  /\ gs' = [gs EXCEPT ![g] =
                          [pc |-> "called", op |-> op, name |-> name,
                           r1 |-> c.r1, e1 |-> c.e1, res |-> <<>>,
                           alone |-> Seen(op, RunAlone(op, name, World)),
                           out |-> Seen(op, [res |-> <<>>, err |-> NilErr, w |-> World])]]
                /\ frames' = [frames EXCEPT ![frameOf(g)] =
                                  [fd |-> c.fd, fds |-> c.fds, count |-> c.count]]
                /\ fdtab' = c.w.fdtab
                /\ activated' = c.w.activated
    /\ UNCHANGED <<platform, managed, missingCode, plist, fileObjs, lnObjs, last,
                   checkin, faults>>

\* goroutine g runs from the return of launch_activate_socket to the
\* return of its operation
Finish(g) ==
    /\ gs[g].pc = "called"
    /\ LET me == gs[g]
           c == [r1 |-> me.r1, e1 |-> me.e1,
                 fd |-> frames[frameOf(g)].fd,
                 fds |-> frames[frameOf(g)].fds,
                 count |-> frames[frameOf(g)].count, w |-> World]
           f == filesOf(pinnerUnpin(switchR1(me.name, c)))
           r == CASE me.op = "Files" -> f
                  [] me.op = "Listeners" -> listenersOf(f)
                  [] me.op = "PacketListeners" -> packetListenersOf(f)
       IN  /\ gs' = [gs EXCEPT ![g].pc = "done", ![g].res = r.res,
                                ![g].out = Seen(me.op, r)]
           /\ fdtab' = r.w.fdtab
           /\ fileObjs' = r.w.fileObjs
           /\ lnObjs' = r.w.lnObjs
    /\ UNCHANGED <<platform, managed, missingCode, plist, activated, last, checkin,
                   frames, faults>>

NextConc ==
    \/ \E g \in Goroutines : \E op \in Ops : \E name \in Names : Invoke(g, op, name)
    \/ \E g \in Goroutines : Finish(g)

SpecConc == InitConc /\ [][NextConc]_vars

---------------------------------------------------------------------------
(* Properties.                                                             *)

\* the step is a call of one of the public operations for name n
CallFor(n) ==
    \/ CallFiles(n)
    \/ CallListeners(n)
    \/ CallPacketListeners(n)
    \/ CallTCPListeners(n)
    \/ CallUDPListeners(n)

\* the step creates no file, no listener and no descriptor
NothingHandedOut ==
    /\ fileObjs' = fileObjs
    /\ lnObjs' = lnObjs
    /\ fdtab' = fdtab

\* n is a name launchd can be asked for and has sockets for
Configured(n) == platform = "darwin" /\ managed /\ n \in DOMAIN plist

AllOf(slots, kinds) == \A i \in 1..Len(slots) : slots[i] \in kinds

\* C1: once a name was activated in the process, every later call of
\* Files, Listeners, PacketListeners (or their deprecated aliases) for it
\* returns an empty list and an error matching EALREADY, and hands out no
\* file, listener or descriptor.
C1_AtMostOnce ==
    [][\A n \in Names :
        (n \in activated /\ last'.name = n /\ CallFor(n)) =>
            /\ last'.res = <<>>
            /\ ErrorsIs(last'.err, EALREADY)
            /\ NothingHandedOut]_vars

\* a second call for an activated name has answered EALREADY
C1_Witness ==
    /\ last.name \in activated
    /\ ErrorsIs(last.err, EALREADY)
    /\ Len(fileObjs) > 0

\* C2: on a managed process a name (without null byte) that is not in the
\* service descriptor gives Listeners and PacketListeners an empty list and
\* an error matching the code launchd answered, ENOENT or ESRCH, and not
\* the other one.
C2_NoSuchSocket ==
    (/\ platform = "darwin"
     /\ managed
     /\ last.op \in {"Listeners", "PacketListeners"}
     /\ last.name \notin DOMAIN plist
     /\ last.name \notin NulNames)
    => /\ last.res = <<>>
       /\ ErrorsIs(last.err, ENOENT) \/ ErrorsIs(last.err, ESRCH)
       /\ ErrorsIs(last.err, ENOENT) <=> missingCode = ENOENT
       /\ ErrorsIs(last.err, ESRCH) <=> missingCode = ESRCH

\* launchd answered ENOENT for a missing name and the caller sees ENOENT
C2_Witness ==
    /\ managed
    /\ missingCode = ENOENT
    /\ last.op = "PacketListeners"
    /\ last.name = "z"
    /\ ErrorsIs(last.err, ENOENT)

\* C3: on a process launchd does not manage, Listeners and PacketListeners
\* return an empty list and an error matching ESRCH for every name (without
\* null byte).
C3_NotManaged ==
    (/\ platform = "darwin"
     /\ ~managed
     /\ last.op \in {"Listeners", "PacketListeners"}
     /\ last.name \notin NulNames)
    => /\ last.res = <<>>
       /\ ErrorsIs(last.err, ESRCH)

\* an unmanaged process has called Listeners
C3_Witness ==
    /\ platform = "darwin"
    /\ ~managed
    /\ last.op = "Listeners"
    /\ last.name = "tcp"
    /\ ErrorsIs(last.err, ESRCH)

\* C4: a call of Listeners that activates a name whose descriptors are all
\* datagram sockets returns no listener and an error matching
\* ESOCKTNOSUPPORT; a call of PacketListeners that activates a name whose
\* descriptors are all stream sockets does the same.
C4_SocketType ==
    [][\A n \in Names :
        /\ (/\ Configured(n) /\ n \notin activated
            /\ AllOf(plist[n], {"dgram"})
            /\ CallListeners(n))
           => /\ last'.res = <<>>
              /\ ErrorsIs(last'.err, ESOCKTNOSUPPORT)
        /\ (/\ Configured(n) /\ n \notin activated
            /\ AllOf(plist[n], {"stream", "streamx"})
            /\ CallPacketListeners(n))
           => /\ last'.res = <<>>
              /\ ErrorsIs(last'.err, ESOCKTNOSUPPORT)]_vars

\* Listeners has activated a name with two datagram sockets and refused both
C4_Witness ==
    /\ last.op = "Listeners"
    /\ Configured(last.name)
    /\ plist[last.name] = <<"dgram", "dgram">>
    /\ last.res = <<>>
    /\ Len(last.err.leaves) = 2
    /\ ErrorsIs(last.err, ESOCKTNOSUPPORT)

\* C5 as stated: PacketListeners on a name whose sockets are all datagram
\* sockets succeeds with one packet listener per descriptor, whether it is
\* the first request for the name or follows a Listeners request that
\* returned UnsupportedSocketType for it.
C5_PacketAlwaysSucceeds ==
    [][\A n \in Names :
        (/\ Configured(n)
         /\ AllOf(plist[n], {"dgram"})
         /\ \/ n \notin activated
            \/ /\ last.op = "Listeners"
               /\ last.name = n
               /\ ErrorsIs(last.err, ESOCKTNOSUPPORT)
         /\ CallPacketListeners(n))
        => /\ last'.err.isNil
           /\ Len(last'.res) = Len(plist[n])]_vars

\* C5 (amended): a call of PacketListeners that activates a name whose
\* descriptors are all datagram sockets returns a nil error and one packet
\* listener per descriptor; a call of Listeners on such a name activates it
\* although it returns UnsupportedSocketType, so that PacketListeners on the
\* name afterwards returns no listener and an error matching EALREADY.
C5_PacketOnDatagramName ==
    [][\A n \in Names :
        (Configured(n) /\ AllOf(plist[n], {"dgram"})) =>
            /\ (n \notin activated /\ CallPacketListeners(n))
               => /\ last'.err.isNil
                  /\ Len(last'.res) = Len(plist[n])
                  /\ \A i \in 1..Len(last'.res) :
                        /\ lnObjs'[last'.res[i]].k = "dgram"
                        /\ lnObjs'[last'.res[i]].s = <<n, i>>
            /\ (n \notin activated /\ CallListeners(n))
               => n \in activated'
            /\ (n \in activated /\ CallPacketListeners(n))
               => /\ last'.res = <<>>
                  /\ ErrorsIs(last'.err, EALREADY)]_vars

\* PacketListeners was refused on a datagram name that Listeners activated
C5_Witness ==
    /\ last.op = "PacketListeners"
    /\ Configured(last.name)
    /\ AllOf(plist[last.name], {"dgram"})
    /\ ErrorsIs(last.err, EALREADY)
    /\ lnObjs = <<>>
    /\ Len(fileObjs) = Len(plist[last.name])

\* the positions of the slots of the given kinds, in order
RECURSIVE SlotsOf(_, _, _)
SlotsOf(slots, kinds, i) ==
    IF i > Len(slots) THEN <<>>
    ELSE IF slots[i] \in kinds THEN <<i>> \o SlotsOf(slots, kinds, i + 1)
    ELSE SlotsOf(slots, kinds, i + 1)

\* the step hands back exactly the listeners of kind k for the slots at
\* the positions pos of name n, in order
HandsBack(n, pos, k) ==
    /\ Len(last'.res) = Len(pos)
    /\ \A i \in 1..Len(pos) :
          /\ last'.res[i] \in (Len(lnObjs) + 1)..Len(lnObjs')
          /\ lnObjs'[last'.res[i]].k = k
          /\ lnObjs'[last'.res[i]].s = <<n, pos[i]>>
          /\ lnObjs'[last'.res[i]].st = "open"

\* C6: when a call of Listeners or PacketListeners activates a name and a
\* file handle fails adaptation, the call returns a non-nil error together
\* with exactly the listeners of the handles that passed, in order.
C6_PartialSuccess ==
    [][\A n \in Names :
        (Configured(n) /\ n \notin activated) =>
            /\ (/\ CallListeners(n)
                /\ \E i \in 1..Len(plist[n]) : plist[n][i] \notin {"stream", "zero"})
               => /\ ~last'.err.isNil
                  /\ HandsBack(n, SlotsOf(plist[n], {"stream"}, 1), "stream")
            /\ (/\ CallPacketListeners(n)
                /\ \E i \in 1..Len(plist[n]) : plist[n][i] \notin {"dgram", "zero"})
               => /\ ~last'.err.isNil
                  /\ HandsBack(n, SlotsOf(plist[n], {"dgram"}, 1), "dgram")]_vars

\* Listeners returned an error and a listener
C6_Witness ==
    /\ last.op = "Listeners"
    /\ ~last.err.isNil
    /\ Len(last.res) = 1
    /\ Configured(last.name)
    /\ plist[last.name] = <<"dgram", "stream">>

FileUsable(j, fo, tab) ==
    /\ fo[j].st = "open"
    /\ fo[j].fd \in DOMAIN tab
    /\ tab[fo[j].fd].s = fo[j].s

ListenerUsable(i, lo, tab) ==
    /\ lo[i].st = "open"
    /\ lo[i].fd \in DOMAIN tab
    /\ tab[lo[i].fd].s = lo[i].s

\* C7: closing a listener leaves every usable file handle usable (open, on
\* an open descriptor of its socket), and closing a file handle leaves
\* every usable listener usable, whatever was closed before.
C7_IndependentWrappers ==
    [][/\ \A i \in 1..Len(lnObjs) : CloseListener(i) =>
            \A j \in 1..Len(fileObjs) :
                FileUsable(j, fileObjs, fdtab) => FileUsable(j, fileObjs', fdtab')
       /\ \A j \in 1..Len(fileObjs) : CloseFile(j) =>
            \A i \in 1..Len(lnObjs) :
                ListenerUsable(i, lnObjs, fdtab) => ListenerUsable(i, lnObjs', fdtab')]_vars

\* of two listeners, one is closed and its file is usable, the other is
\* usable and its file is closed
C7_Witness ==
    \E i, k \in 1..Len(lnObjs) :
        /\ i # k
        /\ lnObjs[i].st = "closed"
        /\ FileUsable(lnObjs[i].file, fileObjs, fdtab)
        /\ fileObjs[lnObjs[k].file].st = "closed"
        /\ ListenerUsable(k, lnObjs, fdtab)

\* the array launch_activate_socket returns for n in the current state
ArrayFor(n) == Install(n, plist[n], 1, fdtab, <<>>).arr

NonZero(arr) == SelectSeq(arr, LAMBDA v : v # 0)

\* C8: a call of Files that activates a name returns as many file handles
\* as the descriptor array has non-zero values, one per non-zero value and
\* in the array's order; the zero slots give no handle and no error.
C8_FilesCount ==
    [][\A n \in Names :
        (Configured(n) /\ n \notin activated /\ CallFiles(n)) =>
            LET nz == NonZero(ArrayFor(n))
            IN  /\ last'.err.isNil
                /\ Len(last'.res) = Len(nz)
                /\ Len(fileObjs') = Len(fileObjs) + Len(nz)
                /\ \A i \in 1..Len(nz) :
                      /\ last'.res[i] = Len(fileObjs) + i
                      /\ fileObjs'[last'.res[i]].fd = nz[i]]_vars

\* Files returned one handle for an array with a zero slot before a socket
C8_Witness ==
    /\ last.op = "Files"
    /\ last.err.isNil
    /\ Configured(last.name)
    /\ plist[last.name] = <<"zero", "stream">>
    /\ Len(last.res) = 1
    /\ fileObjs[last.res[1]].fd = 3

UnsupportedErr == Errorf("launchd: only supported on macOS", ENOTSUP)

C11_InvalidName ==
    [][\A n \in NulNames :
        (platform = "darwin" /\ last'.name = n /\ CallFor(n)) =>
            /\ last'.res = <<>>
            /\ last'.err = Errorf("launchd: invalid socket name", EINVAL)
            /\ ErrorsIs(last'.err, EINVAL)
            /\ last'.ncalls = 0
            /\ activated' = activated
            /\ NothingHandedOut]_vars

\* PacketListeners has refused a name with a null byte on a managed process
C11_Witness ==
    /\ platform = "darwin"
    /\ managed
    /\ last.op = "PacketListeners"
    /\ last.name \in NulNames
    /\ ErrorsIs(last.err, EINVAL)
    /\ last.ncalls = 0

\* C12: on macOS each call of an operation invokes launch_activate_socket
\* exactly once when the name has no null byte, whatever the routine
\* answers and for the empty name too, and not at all when the name has a
\* null byte.
C12_OneInvocation ==
    (platform = "darwin" /\ last.op # "none") =>
        last.ncalls = (IF last.name \in NulNames THEN 0 ELSE 1)

\* a call for the empty name and a failed call have each invoked the
\* routine once
C12_Witness ==
    /\ platform = "darwin"
    /\ last.op # "none"
    /\ last.name = ""
    /\ ~last.err.isNil
    /\ last.ncalls = 1

\* the step is a call of one of the operations: a step of the process
\* that closes nothing itself
IsCall ==
    /\ ~ \E i \in 1..Len(lnObjs) : CloseListener(i)
    /\ ~ \E j \in 1..Len(fileObjs) : CloseFile(j)

\* C13 as stated: whenever an operation returns a nil error, the list it
\* returns has at least one element.
C13_SuccessNonEmpty ==
    (last.op # "none" /\ last.err.isNil) => Len(last.res) >= 1

\* C14: a call of an operation closes nothing: every descriptor open before
\* the call is open after it on the same socket, every file and listener
\* built before is as it was, no file or listener built by the call is
\* closed, and when the call activates a name every descriptor of the array
\* launch_activate_socket returned is open on its socket when the call
\* returns, also when the call returns an error or a partial list.
C14_NeverCloses ==
    [][IsCall =>
        /\ \A fd \in DOMAIN fdtab : fd \in DOMAIN fdtab' /\ fdtab'[fd] = fdtab[fd]
        /\ Len(fileObjs') >= Len(fileObjs) /\ Len(lnObjs') >= Len(lnObjs)
        /\ \A j \in 1..Len(fileObjs) : fileObjs'[j] = fileObjs[j]
        /\ \A i \in 1..Len(lnObjs) : lnObjs'[i] = lnObjs[i]
        /\ \A j \in (Len(fileObjs) + 1)..Len(fileObjs') : fileObjs'[j].st # "closed"
        /\ \A i \in (Len(lnObjs) + 1)..Len(lnObjs') : ListenerUsable(i, lnObjs', fdtab')
        /\ \A n \in Names :
              (Configured(n) /\ n \notin activated /\ n \in activated') =>
                  \A i \in 1..Len(plist[n]) :
                      ArrayFor(n)[i] > 0 =>
                          /\ ArrayFor(n)[i] \in DOMAIN fdtab'
                          /\ fdtab'[ArrayFor(n)[i]].s = <<n, i>>]_vars

\* Listeners returned an error and a listener, and the descriptors of both
\* slots of the array are open
C14_Witness ==
    /\ last.op = "Listeners"
    /\ ~last.err.isNil
    /\ Len(last.res) = 1
    /\ Configured(last.name)
    /\ plist[last.name] = <<"stream", "dgram">>
    /\ Len(fileObjs) = 2
    /\ \A j \in 1..2 : FileUsable(j, fileObjs, fdtab)

\* C15 as stated: when a call of Listeners or PacketListeners activates a
\* name and returns an error together with a partial list, every descriptor
\* of the array is reachable from the list the call returns: some element
\* of the list was built from the file handle of the descriptor.
C15_AllDescriptorsHandedBack ==
    [][(/\ IsCall
        /\ last'.op \in {"Listeners", "PacketListeners"}
        /\ last'.name \notin activated
        /\ last'.name \in activated'
        /\ ~last'.err.isNil
        /\ Len(last'.res) >= 1)
       => \A j \in (Len(fileObjs) + 1)..Len(fileObjs') :
              fileObjs'[j].st = "open" =>
                  \E i \in 1..Len(last'.res) : lnObjs'[last'.res[i]].file = j]_vars

\* the failures of an activation that the package names: not found, not
\* managed, already activated
FailKinds == {ENOENT, ESRCH, EALREADY}

\* the numbers of FailKinds an error matches
KindsOf(err) == {k \in FailKinds : ErrorsIs(err, k)}

\* the numbers of FailKinds that the error of every operation matches when
\* it is called for n in the state w
FailsAs(n, w) ==
    LET f == KindsOf(Files(n, w).err)
    IN  IF f = {} THEN {}
        ELSE {k \in f :
                /\ ErrorsIs(Listeners(n, w).err, k)
                /\ ErrorsIs(PacketListeners(n, w).err, k)
                /\ ErrorsIs(TCPListeners(n, w).err, k)
                /\ ErrorsIs(UDPListeners(n, w).err, k)}

\* the failure launchd has in store for n by its own state: the process is
\* not managed, the name is not in the service descriptor, the name was
\* activated
Doomed(n) ==
    IF platform # "darwin" \/ n \in NulNames THEN {}
    ELSE IF ~managed THEN {ESRCH}
    ELSE IF n \notin DOMAIN plist THEN {missingCode}
    ELSE IF n \in activated THEN {EALREADY}
    ELSE {}

SocksOf(g) == {gs[g].out.socks[i] : i \in 1..Len(gs[g].out.socks)} \ {NoSock}

\* C16: when two goroutines call the package for the same configured name
\* at the same time, launch_activate_socket answers 0 to one call at most
\* and EALREADY to the other; the call that was answered EALREADY returns
\* the nil list and an error matching EALREADY, the call that was answered
\* 0 returns what it returns when run alone, and no socket is handed to
\* both.
C16_SameNameRace ==
    \A g, h \in Goroutines :
        (/\ g # h
         /\ gs[g].pc # "idle" /\ gs[h].pc # "idle"
         /\ gs[g].name = gs[h].name
         /\ Configured(gs[g].name))
        => /\ ~(gs[g].r1 = 0 /\ gs[h].r1 = 0)
           /\ gs[g].r1 = 0 => gs[h].r1 = EALREADY
           /\ (gs[h].pc = "done" /\ gs[h].r1 = EALREADY)
              => /\ gs[h].res = <<>>
                 /\ ErrorsIs(gs[h].out.err, EALREADY)
           /\ (gs[g].pc = "done" /\ gs[g].r1 = 0) => gs[g].out = gs[g].alone
           /\ SocksOf(g) \cap SocksOf(h) = {}

\* while the call of g1 that activated "tcp" is between the return of
\* launch_activate_socket and its own return, the call of g2 for "tcp" has
\* returned EALREADY
C16_Witness ==
    /\ gs["g1"].pc = "called"
    /\ gs["g1"].name = "tcp"
    /\ gs["g1"].r1 = 0
    /\ gs["g2"].pc = "done"
    /\ gs["g2"].name = "tcp"
    /\ ErrorsIs(gs["g2"].out.err, EALREADY)

\* C17: two goroutines that call the package for different names at the
\* same time share no state of the package: each call returns what it
\* returns when run alone, and a step of one goroutine changes neither the
\* position and results of the other nor the words fd and count of the
\* other's call.
C17_DifferentNames ==
    /\ [](\A g, h \in Goroutines :
            (/\ g # h
             /\ gs[g].pc = "done"
             /\ gs[h].pc # "idle"
             /\ gs[h].name # gs[g].name)
            => gs[g].out = gs[g].alone)
    /\ [][\A g, h \in Goroutines :
            (g # h /\ gs'[g] # gs[g]) =>
                /\ gs'[h] = gs[h]
                /\ frames'[frameOf(h)] = frames[frameOf(h)]]_vars

\* Listeners("tcp") of g1 has returned its listener, built while the call
\* of g2 for "udp" was under way: launchd passed the descriptor of "udp"
\* before g1 duplicated the one of "tcp"
C17_Witness ==
    /\ gs["g1"].pc = "done"
    /\ gs["g1"].op = "Listeners"
    /\ gs["g1"].name = "tcp"
    /\ gs["g1"].out.err.isNil
    /\ Len(gs["g1"].res) = 1
    /\ lnObjs[gs["g1"].res[1]].fd = 5
    /\ gs["g2"].pc = "called"
    /\ gs["g2"].name = "udp"
    /\ gs["g2"].r1 = 0

\* Listeners has built a stream listener from a descriptor of name n
StreamActivated(n) ==
    /\ Configured(n)
    /\ n \in activated
    /\ \E i \in 1..Len(lnObjs) : lnObjs[i].k = "stream" /\ lnObjs[i].s[1] = n

\* C20: once Listeners has activated a stream socket name, a call of
\* PacketListeners for the name returns no listener and an error that
\* matches EALREADY and not ESOCKTNOSUPPORT, makes no getsockopt query and
\* hands out nothing.
C20_AlreadyBeforeType ==
    [][\A n \in Names :
        (StreamActivated(n) /\ last'.name = n /\ CallPacketListeners(n)) =>
            /\ last'.res = <<>>
            /\ ErrorsIs(last'.err, EALREADY)
            /\ ~ErrorsIs(last'.err, ESOCKTNOSUPPORT)
            /\ last'.nquery = 0
            /\ NothingHandedOut]_vars

\* PacketListeners was refused for a name whose stream listener the
\* process holds
C20_Witness ==
    /\ last.op = "PacketListeners"
    /\ StreamActivated(last.name)
    /\ plist[last.name] = <<"stream">>
    /\ ErrorsIs(last.err, EALREADY)
    /\ last.nquery = 0

\* C19: IsManagedByLaunchd returns true only with a nil error, and does so
\* exactly when no foreign call reported a raw error, neither the request
\* nor the response object is NULL, the response is of the errno data type
\* and the error number it carries is 0; on every other outcome it returns
\* false with a non-nil error.
C19_BoolOnlyWithNilError ==
    checkin.called =>
        LET x == checkin.x
            r == checkin.ret
        IN  /\ r.ok => r.err.isNil
            /\ r.ok <=> (/\ x.newErr = 0 /\ x.newPtr # 0
                         /\ x.msgErr = 0 /\ x.msgPtr # 0
                         /\ x.typeErr = 0 /\ x.type = launchDataTypeErrno
                         /\ x.getErr = 0 /\ x.errno = 0)
            /\ ~r.ok => ~r.err.isNil

\* a check-in answered with an errno object carrying 0 has returned true,
\* nil
C19_Witness ==
    /\ checkin.called
    /\ checkin.x.type = launchDataTypeErrno
    /\ checkin.x.errno = 0
    /\ checkin.ret.ok
    /\ checkin.ret.err.isNil

---------------------------------------------------------------------------
(* The activation request: what listenerFdsWithName does with the answers  *)
(* of the foreign calls.                                                   *)

\* the entries of a log for one routine
EntriesOf(log, ev) == SelectSeq(log, LAMBDA e : e.ev = ev)

\* the last public call reached launch_activate_socket
Activating ==
    /\ platform = "darwin"
    /\ last.op # "none"
    /\ Len(EntriesOf(last.log, "launch_activate_socket")) = 1

\* what launch_activate_socket was called with and answered in the last call
Answer == EntriesOf(last.log, "launch_activate_socket")[1].arg

\* the last call freed the array and free reported no raw error
FreedOk ==
    /\ Len(EntriesOf(last.log, "free")) = 1
    /\ EntriesOf(last.log, "free")[1].arg.e1 = 0

\* the descriptor numbers behind the files Files returned
FdsOf(res) == [i \in 1..Len(res) |-> fileObjs[res[i]].fd]

\* C21: when the trampoline reports no raw error for launch_activate_socket,
\* the result word decides: 0 selects the success branch (Files returns a
\* nil error, with the handles of the non-zero entries of the array, exactly
\* when the count is positive and free reports no raw error); ENOENT, ESRCH
\* and EALREADY give an error matching that number; every other value v
\* gives the unknown-code error wrapping Errno(v) with v unchanged; every
\* non-zero result word gives no descriptors and a non-nil error.
C21_ResultCodeMapping ==
    (Activating /\ Answer.e1 = 0) =>
        /\ (Answer.r1 = 0 /\ last.op = "Files")
           => /\ last.err.isNil <=> (Answer.count > 0 /\ FreedOk)
              /\ last.err.isNil => FdsOf(last.res) = NonZero(Answer.fds)
        /\ Answer.r1 # 0
           => /\ last.res = <<>>
              /\ ~last.err.isNil
              /\ last.err.leaves = <<Answer.r1>>
              /\ Answer.r1 \notin {ENOENT, ESRCH, EALREADY}
                 <=> last.err.msg = "launchd: unknown error code"
        /\ \A k \in {ENOENT, ESRCH, EALREADY} :
              Answer.r1 = k => ErrorsIs(last.err, k)

\* launchd answered a result word the documentation does not list and the
\* caller got an error wrapping that number
C21_Witness ==
    /\ Activating
    /\ Answer.e1 = 0
    /\ Answer.r1 = EBADF
    /\ last.res = <<>>
    /\ last.err.leaves = <<EBADF>>
    /\ ErrorsIs(last.err, EBADF)

\* C22: when the trampoline reports a raw error for launch_activate_socket,
\* the call returns nothing and an error wrapping that raw error, whatever
\* the result word and the count are: the result word is not interpreted,
\* the array is not copied, free is not called and no descriptor is wrapped
\* or queried.
C22_CallMechanismFirst ==
    (Activating /\ Answer.e1 # 0) =>
        /\ last.res = <<>>
        /\ last.err.msg = "launchd: error calling launch_activate_socket"
        /\ last.err.leaves = <<Answer.e1>>
        /\ EntriesOf(last.log, "Clone") = <<>>
        /\ EntriesOf(last.log, "free") = <<>>
        /\ last.nquery = 0
        /\ fileObjs = <<>>

\* the trampoline reported a raw error although launchd answered 0 and an
\* array of descriptors
C22_Witness ==
    /\ Activating
    /\ Answer.e1 = EINVAL
    /\ Answer.r1 = 0
    /\ Answer.count = MaxCount
    /\ last.res = <<>>
    /\ ErrorsIs(last.err, EINVAL)

\* the places of the entries for one routine in a log
PlacesOf(log, ev) == {i \in 1..Len(log) : log[i].ev = ev}

\* C23: when launch_activate_socket answers 0 with a positive count (and
\* no raw error), the call copies exactly count entries from the address
\* launchd wrote, then calls free once, on that address, and reads the
\* array no more; if free reports no raw error the list handed back is the
\* array as it was copied (Files wraps its non-zero entries, in order).
C23_CopyThenFree ==
    (Activating /\ Answer.e1 = 0 /\ Answer.r1 = 0 /\ Answer.count > 0) =>
        /\ Answer.fd # 0
        /\ EntriesOf(last.log, "Clone") =
              <<Ev("Clone", [fd |-> Answer.fd, count |-> Answer.count])>>
        /\ Len(EntriesOf(last.log, "free")) = 1
        /\ EntriesOf(last.log, "free")[1].arg.fd = Answer.fd
        /\ \A i \in PlacesOf(last.log, "Clone") :
              \A j \in PlacesOf(last.log, "free") :
                 /\ i < j
                 /\ \A k \in PlacesOf(last.log, "launch_activate_socket") : k < i
        /\ (FreedOk /\ last.op = "Files")
           => /\ last.err.isNil
              /\ FdsOf(last.res) = NonZero(Answer.fds)

\* Files has returned the handles of an array it copied and freed
C23_Witness ==
    /\ Activating
    /\ last.op = "Files"
    /\ Answer.r1 = 0
    /\ Answer.count = MaxCount
    /\ FreedOk
    /\ last.err.isNil
    /\ Len(last.res) >= 1
    /\ FdsOf(last.res) = NonZero(Answer.fds)

\* C24: a call with a name that is a C string pins &fd, &count and
\* &libcName before it calls launch_activate_socket, and unpins once, after
\* its last foreign call (launch_activate_socket, or free where the array is
\* freed), whether it returns descriptors or an error; a call that returns
\* before pinning (name with a null byte) pins and unpins nothing.
C24_PinningBrackets ==
    (platform = "darwin" /\ last.op # "none") =>
        IF last.name \in NulNames
        THEN last.log = <<>>
        ELSE /\ Len(last.log) >= 5
             /\ SubSeq(last.log, 1, 3) =
                   <<Ev("Pin", "&fd"), Ev("Pin", "&count"), Ev("Pin", "&libcName")>>
             /\ PlacesOf(last.log, "Pin") = {1, 2, 3}
             /\ PlacesOf(last.log, "Unpin") = {Len(last.log)}
             /\ PlacesOf(last.log, "launch_activate_socket") = {4}
             /\ \A j \in PlacesOf(last.log, "free") \cup PlacesOf(last.log, "Clone") :
                   4 < j /\ j < Len(last.log)

\* a call that failed in free has unpinned after it
C24_Witness ==
    /\ Activating
    /\ ~last.err.isNil
    /\ Len(EntriesOf(last.log, "free")) = 1
    /\ ~FreedOk
    /\ last.log[Len(last.log)] = Ev("Unpin", "all")
    /\ PlacesOf(last.log, "free") = {Len(last.log) - 1}

\* C25: when launch_activate_socket answers 0 with a count of 0 (and no
\* raw error), the call returns nothing and the no-sockets-found error
\* wrapping ENOENT, and calls free not at all; free is called only where
\* the result word is 0 and the count positive.
C25_DefensiveEmpty ==
    (platform = "darwin" /\ last.op # "none") =>
        /\ (Activating /\ Answer.e1 = 0 /\ Answer.r1 = 0 /\ Answer.count = 0)
           => /\ last.res = <<>>
              /\ last.err.msg = "launchd: no sockets found"
              /\ last.err.leaves = <<ENOENT>>
              /\ ErrorsIs(last.err, ENOENT)
              /\ EntriesOf(last.log, "free") = <<>>
              /\ EntriesOf(last.log, "Clone") = <<>>
        /\ EntriesOf(last.log, "free") # <<>>
           => /\ Activating
              /\ Answer.e1 = 0
              /\ Answer.r1 = 0
              /\ Answer.count > 0

\* launchd answered 0 and no descriptor, and the caller got ENOENT
C25_Witness ==
    /\ Activating
    /\ Answer.e1 = 0
    /\ Answer.r1 = 0
    /\ Answer.count = 0
    /\ last.name \in activated
    /\ ErrorsIs(last.err, ENOENT)
    /\ EntriesOf(last.log, "free") = <<>>

\* the kind of socket an operation adapts
WantOf(op) == IF op \in {"Listeners", "TCPListeners"} THEN "stream" ELSE "dgram"

\* C26: when a call of Listeners or PacketListeners (or of an alias) gets
\* file handles from Files, it queries every handle once, in order, and
\* each handle gives either one listener in the list or one failure in the
\* joined error; the listeners are those of the handles that passed, in the
\* order of their descriptors; the error is nil exactly when every handle
\* passed, and then there is one listener per handle.
C26_PerHandleAccounting ==
    (/\ Activating
     /\ last.op \in {"Listeners", "PacketListeners", "TCPListeners", "UDPListeners"}
     /\ Answer.e1 = 0 /\ Answer.r1 = 0 /\ Answer.count > 0 /\ FreedOk)
    => LET h == NonZero(Answer.fds)
           pass == SlotsOf(plist[last.name], {WantOf(last.op)}, 1)
       IN  /\ last.nquery = Len(h)
           /\ Len(last.res) + Len(last.err.leaves) = Len(h)
           /\ Len(last.res) = Len(pass)
           /\ \A i \in 1..Len(last.res) :
                 /\ lnObjs[last.res[i]].s = <<last.name, pass[i]>>
                 /\ lnObjs[last.res[i]].k = WantOf(last.op)
                 /\ fileObjs[lnObjs[last.res[i]].file].fd = Answer.fds[pass[i]]
           /\ \A i \in 1..Len(last.res) : \A j \in 1..Len(last.res) :
                 i < j => lnObjs[last.res[i]].file < lnObjs[last.res[j]].file
           /\ last.err.isNil <=> Len(last.res) = Len(h)

\* the first handle failed and the second one gave a listener
C26_Witness ==
    /\ Activating
    /\ last.op = "Listeners"
    /\ Answer.r1 = 0
    /\ plist[last.name] = <<"dgram", "stream">>
    /\ last.nquery = 2
    /\ Len(last.res) = 1
    /\ lnObjs[last.res[1]].s = <<last.name, 2>>
    /\ last.err.leaves = <<ESOCKTNOSUPPORT>>

\* the step is a call of Listeners or PacketListeners, or of an alias, for n
AdaptCallFor(n) ==
    \/ CallListeners(n)
    \/ CallPacketListeners(n)
    \/ CallTCPListeners(n)
    \/ CallUDPListeners(n)

\* C27: when Files returns an error to Listeners or PacketListeners (or an
\* alias), the operation returns no list and that very error, message and
\* wrapped numbers alike, and makes no socket-type query and builds no
\* listener.
C27_ActivationErrorsPassThrough ==
    [][\A n \in Names :
        (/\ platform = "darwin"
         /\ last'.name = n
         /\ last'.op \notin {"none", "Files"}
         /\ AdaptCallFor(n)
         /\ ~Files(n, World).err.isNil)
        => /\ last'.res = <<>>
           /\ last'.err = Files(n, World).err
           /\ last'.nquery = 0
           /\ lnObjs' = lnObjs
           /\ fileObjs' = fileObjs]_vars

\* PacketListeners has handed on the error Files made of a raw error of free
C27_Witness ==
    /\ Activating
    /\ last.op = "PacketListeners"
    /\ Answer.r1 = 0
    /\ ~FreedOk
    /\ Len(EntriesOf(last.log, "free")) = 1
    /\ last.res = <<>>
    /\ last.err = Errorf("launchd: error calling free on *fd", EINVAL)
    /\ last.nquery = 0

\* the sockets launchd holds for name n
SocketsOf(n) == {<<n, i>> : i \in {j \in 1..Len(plist[n]) : plist[n][j] \in SockKinds}}

\* the socket s is open in the process and no file or listener wraps it
OpenUnwrapped(s) ==
    /\ \E fd \in DOMAIN fdtab : fdtab[fd].s = s
    /\ \A j \in 1..Len(fileObjs) : fileObjs[j].s # s
    /\ \A i \in 1..Len(lnObjs) : lnObjs[i].s # s

\* free reports a raw error and nothing else goes wrong
FreeFails == faults.freeErr # 0 /\ faults.callErr = 0 /\ faults.code = 0

\* C28: when launch_activate_socket answered 0 with a positive count and
\* the call of free reports a raw error, the call returns nothing and an
\* error wrapping that raw error, although the array was copied; the
\* sockets of the name stay open in the process, wrapped by no file or
\* listener, and every later call for the name returns nothing and an
\* error matching EALREADY.
C28_FreeFailureLosesActivation ==
    /\ [](/\ (Activating /\ Answer.e1 = 0 /\ Answer.r1 = 0 /\ Answer.count > 0
               /\ ~FreedOk)
              => /\ last.res = <<>>
                 /\ last.err = Errorf("launchd: error calling free on *fd", faults.freeErr)
                 /\ Len(EntriesOf(last.log, "Clone")) = 1
                 /\ last.name \in activated
          /\ FreeFails
              => \A n \in activated : \A s \in SocketsOf(n) : OpenUnwrapped(s))
    /\ [][\A n \in Names :
            (FreeFails /\ n \in activated /\ last'.name = n /\ CallFor(n))
            => /\ last'.res = <<>>
               /\ ErrorsIs(last'.err, EALREADY)
               /\ NothingHandedOut]_vars

\* after a call that failed in free, a second call for the name was
\* answered EALREADY while its sockets are open and unwrapped
C28_Witness ==
    /\ FreeFails
    /\ Activating
    /\ Answer.r1 = EALREADY
    /\ ErrorsIs(last.err, EALREADY)
    /\ last.name \in activated
    /\ Cardinality(SocketsOf(last.name)) = MaxCount
    /\ \A s \in SocketsOf(last.name) : OpenUnwrapped(s)

\* C29 as stated: every element of the list Files returns is a non-nil
\* file handle that wraps a descriptor number greater than 0, whatever
\* 32-bit values (zero, positive, negative) the array of the activation
\* holds: only the zero entries are skipped.
C29_FilesHandlesValid ==
    (platform = "darwin" /\ last.op = "Files" /\ last.err.isNil) =>
        \A i \in 1..Len(last.res) :
            /\ fileObjs[last.res[i]].st # "nil"
            /\ fileObjs[last.res[i]].fd > 0

\* the foreign routines that take the object they are given in use
UsingCalls == {"launch_msg", "launch_data_get_type", "launch_data_get_errno"}

\* the number of foreign calls up to the first step that fails, or all four
StepsUntilFailure(x) ==
    IF x.newErr # 0 \/ x.newPtr = 0 THEN 1
    ELSE IF x.msgErr # 0 \/ x.msgPtr = 0 THEN 2
    ELSE IF x.typeErr # 0 \/ x.type # launchDataTypeErrno THEN 3
    ELSE 4

\* C30 as stated: in IsManagedByLaunchd, launch_data_free is called only
\* with the non-null address of an object a foreign call returned (the
\* check-in request string, the check-in response), at most once per
\* object, after the last foreign call that uses the object, and on every
\* exit path that follows the allocation of the object; no foreign call but
\* these releases is made after the first step that fails.
C30_ReleaseOnlyObjects ==
    checkin.called =>
        LET x == checkin.x
            log == checkin.ret.log
            frees == PlacesOf(log, "launch_data_free")
        IN  /\ \A i \in frees :
                  /\ log[i].arg # 0
                  /\ \/ log[i].arg = x.newPtr /\ x.newErr = 0
                     \/ log[i].arg = x.msgPtr /\ x.newErr = 0 /\ x.msgErr = 0
            /\ \A i \in frees : \A j \in frees : log[i].arg = log[j].arg => i = j
            /\ \A i \in frees : \A j \in 1..Len(log) :
                  (log[j].ev \in UsingCalls /\ log[j].arg = log[i].arg) => j < i
            /\ (x.newErr = 0 /\ x.newPtr # 0)
               => \E i \in frees : log[i].arg = x.newPtr
            /\ (x.newErr = 0 /\ x.newPtr # 0 /\ x.msgErr = 0 /\ x.msgPtr # 0)
               => \E i \in frees : log[i].arg = x.msgPtr
            /\ Len(log) - Cardinality(frees) = StepsUntilFailure(x)

\* C10 as stated: on every platform but macOS the operations return no
\* listener and an error matching ENOSYS.
C10_UnsupportedIsENOSYS ==
    (platform = "other" /\ last.op # "none") =>
        /\ last.res = <<>>
        /\ ErrorsIs(last.err, ENOSYS)

====
